---- MODULE Spec2Model ----
(***************************************************************************)
(* Session-aware upload-and-append ingestion pipeline of SonicScribe       *)
(* (src/main.py, src/ai_engine.py, src/models.py).                         *)
(*                                                                         *)
(* The MeetingStore is the `meetings` table, the BlobStore the container   *)
(* `stt-data`.  A request body is kept as its length and whether it starts *)
(* with the RIFF magic: the two facts the append path branches on.         *)
(*                                                                         *)
(* upload_chunk is an `async def`: it runs on the event loop and gives up  *)
(* control only at `async for chunk in request.stream()`.  It is therefore *)
(* two steps, UploadBegin (lines 412-470) and UploadFinish (lines 474-622).*)
(* The `def` endpoints and the background AI task run on threads and are   *)
(* one step per database transaction.                                      *)
(***************************************************************************)
EXTENDS Integers, FiniteSets, Sequences, Bags, TLC

\* ------------------------------------------------------------------ bounds
MaxCalls == 3    \* requests received plus process restarts in one run
MaxClock == 8    \* the latest time at which waiting is still followed
MaxLen == 3      \* payloads up to this length are sent with every byte pattern
MaxRaw == 5      \* unframed bodies up to this length arrive with every byte pattern
MaxGrowth == 2   \* a decoder loop is followed until its output exceeds the body by this
MaxRuns == 2     \* times a header repair is run on one buffer

\* --------------------------------------------------------- program constants
WAV_HEADER_LEN == 44       \* the fixed header length skipped on append
RIFF_FIELD_END == 8        \* the RIFF size field counts the bytes after itself
MIN_AUDIO_BYTES == 1024    \* process_meeting's minimum size check
REIMPORT_COMPLETED_BYTES == 1000   \* above it an orphaned blob is imported as completed
RECENT_WINDOW == 5         \* minutes a processing recording stays linkable; the clock counts minutes
CR == 13                   \* b'\r'
LF == 10                   \* b'\n'
MAX_SIZE_LINE == 8         \* longest first line taken for a chunk-size line
MIN_FRAMED_LEN == 4        \* bodies up to this length are not looked at

\* ------------------------------------------------------------- input domains
NoMac   == "none"                      \* request without mac_address
Devices == {"AA:BB"}
Macs    == Devices \cup {NoMac}
UploadNames == {"live.wav", "live_b.wav"}
RenameNames == {"renamed.wav"}
\* two microphones, for the requests that tell devices apart
MicDevices == {"AA:BB", "CC:DD"}
\* file names of manual uploads
ManualNames == {"talk.wav"}
\* sizes of manual uploads: under and over the minimum the AI task accepts
ManualSizes == {500, 2000}
\* what the devices post to /api/upload: the live stream, and a camera frame
DeviceNames == {"live.wav", "cam_capture.jpg"}
\* the names the firmware and an operator ask /api/ack about
AckNames == {"live.wav", "talk.wav"}
\* how long the clients stay silent: to the edge of the window, and past it
Waits == {RECENT_WINDOW, RECENT_WINDOW + 1}
Chunk(riff, len) == [riff |-> riff, len |-> len]
\* bodies after the transport normaliser: empty, a bare header, audio with
\* and without a leading RIFF header
Chunks  == {Chunk(FALSE, 0), Chunk(TRUE, 44), Chunk(TRUE, 1000), Chunk(FALSE, 1000)}
\* bodies for the session life cycle: empty, and audio above the minimum size
SessionChunks == {Chunk(FALSE, 0), Chunk(TRUE, 2000)}
\* uuid4 values for Meeting.id: a row is inserted by an upload request or, at
\* boot, for a blob that an earlier upload request wrote
Ids     == 1..MaxCalls

NoMeeting == 0
NoTime    == -1

VARIABLES
    meetings,   \* the meetings table: id -> row, for the rows that exist
    nextId,     \* next uuid4 to be handed out
    blobs,      \* the container: blob name -> [len, riff], for blobs that exist
    images,     \* the meeting_images table (set of rows)
    reqs,       \* bag of upload requests suspended at request.stream()
    queued,     \* id -> background tasks added for the meeting, not yet started
    running,    \* id -> background tasks past the fetch, inside the AI calls
    now,        \* the clock: every timestamp written is later than the last
    nCalls,     \* requests received and restarts so far (bounded in Next)
    \* history, for stating the claims
    written,    \* id -> bytes written to storage on behalf of the meeting
    started,    \* id -> AI pipeline runs started (add_task / thread start)
    rearmed,    \* id -> of those, the runs started by reprocess or at boot
    finalized,  \* id -> end_session / end_session_by_mac calls that succeeded
    received,   \* id -> bytes of the request bodies stored for the meeting
    riffAppends, \* id -> appended bodies that began with RIFF and exceeded the header
    reply,      \* the response sent last
    wire,       \* a request body on its way through the transport normaliser
    wav,        \* a buffer on its way through the WAV header repair
    deleting    \* the delete requests between their reads and their commit

vars == <<meetings, nextId, blobs, images, reqs, queued, running, now,
          nCalls, written, started, rearmed, finalized, received, riffAppends, reply,
          wire, wav, deleting>>

\* -------------------------------------------------------------- models.Meeting
\* Column defaults of models.Meeting: status "processing", device_type "mic",
\* session_active True, upload_timestamp server_default now().
MeetingRow(filename, file_path, file_size, status, mac, device_type, active, ts) ==
    [filename |-> filename, file_path |-> file_path, file_size |-> file_size,
     status |-> status, mac_address |-> mac, device_type |-> device_type,
     session_active |-> active, session_end_timestamp |-> NoTime,
     upload_timestamp |-> ts, transcription_text |-> FALSE, summary |-> "none"]

\* a naming that gives every session the same blob
LiveBlobNameShared(n) == "live_stream_0.wav"

\* f"live_stream_{uuid.uuid4()}.wav": one fresh name per uuid
LiveBlobName(n) == "live_stream_" \o ToString(n) \o ".wav"

\* .order_by(upload_timestamp.desc()).first() over the rows in S: the ids
\* the query may return (ties are the database's choice)
Latest(S) == {i \in S : \A j \in S : meetings[j].upload_timestamp <= meetings[i].upload_timestamp}

\* the filter shared by upload_chunk and end_session_by_mac
ActiveSessionsOf(mac) ==
    {i \in DOMAIN meetings :
        /\ meetings[i].mac_address = mac
        /\ meetings[i].status = "processing"
        /\ meetings[i].device_type = "mic"
        /\ meetings[i].session_active}

\* a lookup that does not see the session another request has just started
SessionLookupBlind(mac) == {}

\* lines 426-431 of upload_chunk: the query for the device's active session
SessionLookup(mac) == ActiveSessionsOf(mac)

Put(f, k, v) == [x \in (DOMAIN f) \cup {k} |-> IF x = k THEN v ELSE f[x]]
Drop(f, k)   == [x \in (DOMAIN f) \ {k} |-> f[x]]
Bump(f, k)   == [f EXCEPT ![k] = @ + 1]

\* bytes.startswith, str.startswith and str.endswith
StartsWith(s, p) == Len(s) >= Len(p) /\ SubSeq(s, 1, Len(p)) = p
EndsWith(s, p) == Len(s) >= Len(p) /\ SubSeq(s, Len(s) - Len(p) + 1, Len(s)) = p

\* ------------------------------------------------- the transport normaliser
\* Bodies are sequences of byte values here.
RIFF == <<82, 73, 70, 70>>
CRLF == <<CR, LF>>

\* Python's slice bounds: a negative index counts from the end, and every
\* index is clamped to 0..n
PyIndex(i, n) == IF i < 0 THEN (IF i + n < 0 THEN 0 ELSE i + n)
                 ELSE IF i > n THEN n ELSE i
\* buf[a:b] and buf[a:], positions counted from 0 as in the source
Slice(buf, a, b) == SubSeq(buf, PyIndex(a, Len(buf)) + 1, PyIndex(b, Len(buf)))
SliceFrom(buf, a) == Slice(buf, a, Len(buf))

\* bytes.find(b'\r\n', pos): the first position from pos on, -1 when there is none
FindCRLF(buf, pos) ==
    LET S == {i \in PyIndex(pos, Len(buf))..(Len(buf) - 2) :
                  buf[i + 1] = CR /\ buf[i + 2] = LF}
    IN  IF S = {} THEN -1 ELSE CHOOSE i \in S : \A j \in S : i <= j

\* the value of a hexadecimal digit, -1 for any other byte
HexValue(b) == IF b \in 48..57 THEN b - 48
               ELSE IF b \in 65..70 THEN b - 55
               ELSE IF b \in 97..102 THEN b - 87
               ELSE -1

\* str.strip(): the ASCII characters Python counts as whitespace are dropped
\* at both ends
Whitespace == {9, 10, 11, 12, 13, 28, 29, 30, 31, 32}
RECURSIVE Strip(_)
Strip(s) == IF s = <<>> THEN s
            ELSE IF s[1] \in Whitespace THEN Strip(Tail(s))
            ELSE IF s[Len(s)] \in Whitespace THEN Strip(SubSeq(s, 1, Len(s) - 1))
            ELSE s

RECURSIVE HexNumber(_)
HexNumber(s) == IF s = <<>> THEN 0
                ELSE 16 * HexNumber(SubSeq(s, 1, Len(s) - 1)) + HexValue(s[Len(s)])

\* the sign int() reads in front of the digits
Plus == 43
Minus == 45
Signs == {Plus, Minus}
Digits(t) == IF t # <<>> /\ t[1] \in Signs THEN Tail(t) ELSE t

\* line.decode('ascii').strip() followed by int(_, 16) raises neither
\* UnicodeDecodeError nor ValueError.  int() reads an optional sign and then
\* hexadecimal digits; the bodies of this model hold no "x" and no "_", the
\* other two forms it reads.
IsHexInteger(line) ==
    /\ \A i \in 1..Len(line) : line[i] <= 127
    /\ Digits(Strip(line)) # <<>>
    /\ \A j \in 1..Len(Digits(Strip(line))) : HexValue(Digits(Strip(line))[j]) >= 0

\* int(line.decode('ascii').strip(), 16) where it raises nothing
HexInteger(line) ==
    LET t == Strip(line)
    IN  IF t[1] = Minus THEN 0 - HexNumber(Digits(t)) ELSE HexNumber(Digits(t))

\* a decoder that never takes a body for a framed one
LooksFramedNever(buf) == FALSE

\* lines 494-500: the body does not begin with RIFF, is longer than four
\* bytes, and its first line, at most eight bytes long, reads as a number
LooksFramed(buf) ==
    /\ ~StartsWith(buf, RIFF)
    /\ Len(buf) > MIN_FRAMED_LEN
    /\ FindCRLF(buf, 0) > 0
    /\ FindCRLF(buf, 0) <= MAX_SIZE_LINE
    /\ IsHexInteger(Slice(buf, 0, FindCRLF(buf, 0)))

\* a decoder that throws away what follows a size line it cannot read
OnBadSizeLineDrops(decoded, rest) == decoded

\* lines 514-517: what follows an unreadable size line is kept as it came
OnBadSizeLine(decoded, rest) == decoded \o rest

\* lines 507-526: one pass of the loop at position pos.  `exit` names the
\* break that was taken, "" when the loop goes on.
Iteration(buf, pos, decoded) ==
    LET end == FindCRLF(buf, pos)
        line == Slice(buf, pos, end)
        csz == HexInteger(line)
        data_start == end + 2
        data_end == data_start + csz
    IN  IF end < 0
        THEN [exit |-> "no_line", pos |-> pos, decoded |-> decoded \o SliceFrom(buf, pos)]
        ELSE IF ~IsHexInteger(line)
        THEN [exit |-> "bad_size", pos |-> pos,
              decoded |-> OnBadSizeLine(decoded, SliceFrom(buf, pos))]
        ELSE IF csz = 0
        THEN [exit |-> "last_chunk", pos |-> pos, decoded |-> decoded]
        ELSE IF data_end > Len(buf)
        THEN [exit |-> "short_chunk", pos |-> pos,
              decoded |-> decoded \o SliceFrom(buf, data_start)]
        ELSE [exit |-> "", pos |-> data_end + 2,
              decoded |-> decoded \o Slice(buf, data_start, data_end)]

\* "%X": the upper-case hexadecimal digits of n
HexChar(d) == IF d < 10 THEN 48 + d ELSE 55 + d
RECURSIVE Hex(_)
Hex(n) == IF n < 16 THEN <<HexChar(n)>> ELSE Hex(n \div 16) \o <<HexChar(n % 16)>>

\* The sender's framing (lines 490-491): for each chunk its length line, CRLF,
\* the data, CRLF; then the zero-length chunk.  `cuts` are the chunk lengths.
RECURSIVE ChunkEncode(_, _)
ChunkEncode(payload, cuts) ==
    IF cuts = <<>> THEN <<48>> \o CRLF \o CRLF
    ELSE Hex(cuts[1]) \o CRLF \o SubSeq(payload, 1, cuts[1]) \o CRLF
             \o ChunkEncode(SubSeq(payload, cuts[1] + 1, Len(payload)), Tail(cuts))

\* payload bytes: CR, LF, the digits "0" and "A", and a byte outside ASCII
PayloadBytes == {CR, LF, 48, 65, 200}
ShortPayloads == UNION {[1..n -> PayloadBytes] : n \in 0..MaxLen}
\* longer payloads, for length lines with letters and with two digits
LongLens == {10, 16, 27}
LongPayload(n) == [i \in 1..n |-> IF i % 3 = 1 THEN CR ELSE IF i % 3 = 2 THEN LF ELSE 48]

\* every way of cutting n bytes into chunks
RECURSIVE Compositions(_)
Compositions(n) ==
    IF n = 0 THEN {<<>>}
    ELSE UNION {{<<k>> \o c : c \in Compositions(n - k)} : k \in 1..n}
\* for the longer payloads: whole, one byte apart at either end, or halved
FewCuts(n) == {<<n>>, <<1, n - 1>>, <<n - 1, 1>>, <<n \div 2, n - (n \div 2)>>}

\* what a sender may have to send: a payload and where it is cut
Outgoing ==
    UNION {{[payload |-> p, cuts |-> c] : c \in Compositions(Len(p))} : p \in ShortPayloads}
    \cup UNION {{[payload |-> LongPayload(n), cuts |-> c] : c \in FewCuts(n)} : n \in LongLens}

\* bytes of bodies that no sender of this model framed: CR, LF, "-", the
\* digits "0", "1" and "6", and "G", which is no digit
RawBytes == {CR, LF, Minus, 48, 49, 54, 71}
RawStrings(n) == UNION {[1..k -> RawBytes] : k \in 0..n}
\* every such body up to MaxRaw bytes; WAV data, which begins with RIFF; and
\* one well-formed chunk followed by anything
RawBodies ==
    RawStrings(MaxRaw)
    \cup {RIFF \o CRLF \o t : t \in RawStrings(1)}
    \cup {<<49>> \o CRLF \o h \o CRLF \o t : h \in RawStrings(1) \ {<<>>}, t \in RawStrings(2)}

\* no body is being looked at
NoBody == [stage |-> "none", payload |-> <<>>, cuts |-> <<>>, body |-> <<>>,
           pos |-> 0, out |-> <<>>, exit |-> ""]

\* ------------------------------------------------------ the WAV header repair
\* int.to_bytes(4, 'little').  It raises for 2^32 and more; the buffers of
\* this model stay far below.
LE4(n) == <<n % 256, (n \div 256) % 256, (n \div 65536) % 256, (n \div 16777216) % 256>>

\* int.from_bytes(buf[at:at+4], 'little') == n, for n of 0 to 2^32 - 1, where
\* from_bytes and to_bytes are inverse.  The four bytes are compared, since
\* the placeholder FFFFFFFF is beyond the integers TLC computes with.
FieldIs(buf, at, n) == Slice(buf, at, at + 4) = LE4(n)
RIFF_FIELD == 4
DATA_FIELD == 40

\* a repair that takes no header for a correct one
HeaderCorrectNever(buf) == FALSE

\* ai_engine.py line 53: both size fields are what the file's length calls for
HeaderCorrect(buf) ==
    /\ FieldIs(buf, RIFF_FIELD, Len(buf) - RIFF_FIELD_END)
    /\ FieldIs(buf, DATA_FIELD, Len(buf) - WAV_HEADER_LEN)

\* ai_engine.py lines 41-65, _fix_wav_header on a file holding `buf`: the file
\* afterwards, and whether it was opened for writing
FixWavHeader(buf) ==
    IF Len(buf) < WAV_HEADER_LEN \/ Slice(buf, 0, 4) # RIFF
    THEN [file |-> buf, wrote |-> FALSE]                                 \* lines 45-46
    ELSE IF HeaderCorrect(buf)
    THEN [file |-> buf, wrote |-> FALSE]                                 \* lines 53-54
    ELSE [file |-> [i \in 1..Len(buf) |->                                \* lines 58-62
                       IF i \in 5..8 THEN LE4(Len(buf) - RIFF_FIELD_END)[i - 4]
                       ELSE IF i \in (WAV_HEADER_LEN - 3)..WAV_HEADER_LEN
                       THEN LE4(Len(buf) - WAV_HEADER_LEN)[i - (WAV_HEADER_LEN - 4)]
                       ELSE buf[i]],
          wrote |-> TRUE]

\* a playback patch that puts the data size where the RIFF size belongs
PatchedForPlaybackSwapped(blob_data) ==
    IF Slice(blob_data, 0, 4) = RIFF /\ Len(blob_data) >= WAV_HEADER_LEN
    THEN SubSeq(blob_data, 1, 4) \o LE4(Len(blob_data) - WAV_HEADER_LEN)
             \o SubSeq(blob_data, 9, WAV_HEADER_LEN - 4)
             \o LE4(Len(blob_data) - WAV_HEADER_LEN)
             \o SubSeq(blob_data, WAV_HEADER_LEN + 1, Len(blob_data))
    ELSE blob_data

\* main.py lines 724-736, get_audio on the downloaded bytes
PatchedForPlayback(blob_data) ==
    IF Slice(blob_data, 0, 4) = RIFF /\ Len(blob_data) >= WAV_HEADER_LEN
    THEN IF \/ ~FieldIs(blob_data, RIFF_FIELD, Len(blob_data) - RIFF_FIELD_END)
            \/ ~FieldIs(blob_data, DATA_FIELD, Len(blob_data) - WAV_HEADER_LEN)
         THEN SubSeq(blob_data, 1, 4) \o LE4(Len(blob_data) - RIFF_FIELD_END)
                  \o SubSeq(blob_data, 9, WAV_HEADER_LEN - 4)
                  \o LE4(Len(blob_data) - WAV_HEADER_LEN)
                  \o SubSeq(blob_data, WAV_HEADER_LEN + 1, Len(blob_data))
         ELSE blob_data
    ELSE blob_data

\* the buffers the repair is given.  Lengths: the bare header, one byte of
\* audio, and lengths whose size fields need a second byte.
WavLens == {WAV_HEADER_LEN, WAV_HEADER_LEN + 1, 300, 304}
\* what a size field may hold: the streaming placeholder, zero, and the values
\* that are right for one of the two fields
SizeFields(n) == {<<255, 255, 255, 255>>, <<0, 0, 0, 0>>,
                  LE4(n - RIFF_FIELD_END), LE4(n - WAV_HEADER_LEN)}
\* "RIFF", and a magic that is not
Magics == {RIFF, <<82, 73, 70, 88>>}
WavBuffer(magic, riff, data, n) ==
    magic \o riff \o [i \in 1..(WAV_HEADER_LEN - 12) |-> i] \o data
          \o [i \in 1..(n - WAV_HEADER_LEN) |-> (7 * i) % 256]
\* buffers shorter than a header, however they begin
ShortLens == {0, 3, 4, WAV_HEADER_LEN - 1}
WavBuffers ==
    UNION {{WavBuffer(m, r, d, n) : m \in Magics, r \in SizeFields(n), d \in SizeFields(n)} :
               n \in WavLens}
    \cup {SubSeq(WavBuffer(RIFF, <<0, 0, 0, 0>>, <<0, 0, 0, 0>>, WAV_HEADER_LEN), 1, k) :
              k \in ShortLens}

\* no buffer is being looked at
NoWav == [stage |-> "none", orig |-> <<>>, file |-> <<>>, runs |-> 0, wrote |-> FALSE,
          served |-> <<>>, plays |-> 0]

\* the tables and the container are empty, nothing is in flight
Empty ==
    /\ meetings = <<>>
    /\ nextId = 1
    /\ blobs = <<>>
    /\ images = {}
    /\ reqs = EmptyBag
    /\ queued = [i \in Ids |-> 0]
    /\ running = [i \in Ids |-> 0]
    /\ now = 0
    /\ nCalls = 0
    /\ written = [i \in Ids |-> 0]
    /\ started = [i \in Ids |-> 0]
    /\ rearmed = [i \in Ids |-> 0]
    /\ finalized = [i \in Ids |-> 0]
    /\ received = [i \in Ids |-> 0]
    /\ riffAppends = [i \in Ids |-> 0]
    /\ reply = "none"
    /\ deleting = {}

Init == Empty /\ wire = NoBody /\ wav = NoWav

\* a sender holds a payload cut into chunks
InitWire ==
    /\ Empty
    /\ \E o \in Outgoing :
          wire = [NoBody EXCEPT !.stage = "cut", !.payload = o.payload, !.cuts = o.cuts]
    /\ wav = NoWav

\* a body arrived that no sender of this model framed
InitRaw ==
    /\ Empty
    /\ \E b \in RawBodies : wire = [NoBody EXCEPT !.stage = "sent", !.body = b]
    /\ wav = NoWav

\* the sender frames the payload and the frames arrive undecoded
SendFramed ==
    /\ wire.stage = "cut"
    /\ wire' = [wire EXCEPT !.stage = "sent", !.body = ChunkEncode(wire.payload, wire.cuts)]
    /\ UNCHANGED <<wav, deleting, meetings, nextId, blobs, images, reqs, queued, running, now, nCalls,
                   written, started, rearmed, finalized, received, riffAppends, reply>>

\* lines 494-504 and 529: a body that looks framed enters the loop at
\* position 0, any other body is passed on as it arrived
NormalizeBegin ==
    /\ wire.stage = "sent"
    /\ wire' = IF LooksFramed(wire.body)
               THEN [wire EXCEPT !.stage = "decoding", !.pos = 0, !.out = <<>>]
               ELSE [wire EXCEPT !.stage = "normalized", !.out = wire.body, !.exit = "as_is"]
    /\ UNCHANGED <<wav, deleting, meetings, nextId, blobs, images, reqs, queued, running, now, nCalls,
                   written, started, rearmed, finalized, received, riffAppends, reply>>

\* lines 505-527: one pass of the loop and the test that follows it.  A loop
\* that does not end is followed until `decoded` has outgrown the body by
\* MaxGrowth bytes.
DechunkLoop ==
    /\ wire.stage = "decoding"
    /\ Len(wire.out) <= Len(wire.body) + MaxGrowth
    /\ LET r == Iteration(wire.body, wire.pos, wire.out)
       IN  wire' = IF r.exit # ""
                   THEN [wire EXCEPT !.stage = "normalized", !.out = r.decoded, !.exit = r.exit]
                   ELSE IF r.pos >= Len(wire.body)
                   THEN [wire EXCEPT !.stage = "normalized", !.pos = r.pos,
                                     !.out = r.decoded, !.exit = "end"]
                   ELSE [wire EXCEPT !.pos = r.pos, !.out = r.decoded]
    /\ UNCHANGED <<wav, deleting, meetings, nextId, blobs, images, reqs, queued, running, now, nCalls,
                   written, started, rearmed, finalized, received, riffAppends, reply>>

\* a recording lies in a file and in a blob, header as the device left it
InitWav ==
    /\ Empty
    /\ wire = NoBody
    /\ \E b \in WavBuffers : wav = [NoWav EXCEPT !.stage = "stored", !.orig = b, !.file = b]

\* ai_engine.py line 100: transcribe_fast_api repairs the header of its file
RepairFile ==
    /\ wav.stage = "stored"
    /\ wav.runs < MaxRuns
    /\ wav' = [wav EXCEPT !.file = FixWavHeader(wav.file).file,
                          !.wrote = FixWavHeader(wav.file).wrote,
                          !.runs = @ + 1]
    /\ UNCHANGED <<wire, deleting, meetings, nextId, blobs, images, reqs, queued, running, now, nCalls,
                   written, started, rearmed, finalized, received, riffAppends, reply>>

\* main.py lines 721-736: get_audio serves the bytes patched in memory
ServeAudio ==
    /\ wav.stage = "stored"
    /\ wav.plays < MaxRuns
    /\ wav' = [wav EXCEPT !.served = PatchedForPlayback(wav.file), !.plays = @ + 1]
    /\ UNCHANGED <<wire, deleting, meetings, nextId, blobs, images, reqs, queued, running, now, nCalls,
                   written, started, rearmed, finalized, received, riffAppends, reply>>

\* ------------------------------------------------------------ the BlobStore
\* a + b, for blob contents
Concat(a, b) == [len |-> a.len + b.len, riff |-> IF a.len = 0 THEN b.riff ELSE a.riff]

BlobOps == {"create", "append", "download", "upload_joined", "upload"}
\* the service is up, or down for the whole request
SessionFaults == {{}, BlobOps}
\* one fault pattern for each way through lines 544-565
FaultCases == {{}, {"append"}, {"append", "download"}, {"append", "upload_joined"},
               {"append", "upload"}, BlobOps}

\* Lines 544-565 of upload_chunk on container state B: the append-blob write
\* and its block-blob fallback.  `faults` are the calls that raise for a reason
\* of the service; append_block and download_blob also raise on a missing blob.
\* Result: the container afterwards and whether the write completed (an
\* exception that leaves the block ends in the handler's `except` at line 567).
StoreChunk(B, name, existing_session, data, faults) ==
    LET created  == IF ~existing_session /\ "create" \notin faults
                    THEN Put(B, name, Chunk(FALSE, 0)) ELSE B
        appendOk == /\ existing_session \/ "create" \notin faults
                    /\ name \in DOMAIN created
                    /\ "append" \notin faults
        uploadAlone == IF "upload" \in faults
                       THEN [blobs |-> created, ok |-> FALSE]
                       ELSE [blobs |-> Put(created, name, data), ok |-> TRUE]
    IN  IF appendOk
        THEN [blobs |-> Put(created, name, Concat(created[name], data)), ok |-> TRUE]
        ELSE IF existing_session
             THEN IF name \in DOMAIN created /\ "download" \notin faults
                                             /\ "upload_joined" \notin faults
                  THEN [blobs |-> Put(created, name, Concat(created[name], data)), ok |-> TRUE]
                  ELSE uploadAlone
             ELSE uploadAlone

\* --------------------------------------------------------------- upload_chunk

\* line 424: the request is treated as a chunk of a live stream
IsLive(filename, mac) == filename = "live.wav" /\ mac # NoMac

\* a header skip that does not ask whether the session existed
DataToWriteAlwaysSkips(existing_session, chunk) ==
    IF chunk.len > WAV_HEADER_LEN /\ chunk.riff
    THEN Chunk(FALSE, chunk.len - WAV_HEADER_LEN)
    ELSE chunk

\* lines 534-539: the bytes written for a request body
DataToWrite(existing_session, chunk) ==
    IF existing_session /\ chunk.len > WAV_HEADER_LEN /\ chunk.riff
    THEN Chunk(FALSE, chunk.len - WAV_HEADER_LEN)
    ELSE chunk

\* line 601: whether the request hands the meeting to the AI pipeline
TriggersPipeline(filename, mac) == ~(StartsWith(filename, "live_") /\ mac # NoMac)

Reading(filename, mac, meeting, existing, blob_name, loaded_size) ==
    [filename |-> filename, mac |-> mac, meeting |-> meeting,
     existing_session |-> existing, blob_name |-> blob_name, loaded_size |-> loaded_size]

\* line 462: the ".wav" safety suffix of a non-live filename
SafeName(filename) == IF EndsWith(filename, ".wav") THEN filename ELSE filename \o ".wav"

\* line 460: f"capture_{uuid.uuid4()}.jpg", one fresh name per request
CaptureBlobName(n) == "capture_" \o ToString(n) \o ".jpg"

\* lines 459-464: the blob a request outside a live stream is stored under
PlainBlobName(filename, n) ==
    IF filename = "cam_capture.jpg" THEN CaptureBlobName(n) ELSE SafeName(filename)

\* lines 462-463: the filename such a request goes on with
PlainFilename(filename) ==
    IF filename = "cam_capture.jpg" THEN filename ELSE SafeName(filename)

\* lines 412-470, up to the first `await`: resolve the session, start one if
\* the device has none.
UploadBegin(filename, mac) ==
    /\ nCalls' = nCalls + 1
    /\ IF IsLive(filename, mac)
       THEN IF SessionLookup(mac) # {}
            THEN \E m \in Latest(SessionLookup(mac)) :
                   /\ reqs' = reqs (+) SetToBag({Reading(filename, mac, m, TRUE,
                                         meetings[m].filename, meetings[m].file_size)})
                   /\ UNCHANGED <<meetings, nextId, now>>
            ELSE /\ meetings' = Put(meetings, nextId,
                                    MeetingRow(LiveBlobName(nextId), LiveBlobName(nextId), 0,
                                               "processing", mac, "mic", TRUE, now))
                 /\ nextId' = nextId + 1
                 /\ now' = now + 1
                 /\ reqs' = reqs (+) SetToBag({Reading(filename, mac, nextId, FALSE,
                                                       LiveBlobName(nextId), 0)})
       ELSE /\ reqs' = reqs (+) SetToBag({Reading(PlainFilename(filename), mac, NoMeeting, FALSE,
                                                  PlainBlobName(filename, nCalls + 1), 0)})
            /\ UNCHANGED <<meetings, nextId, now>>
    /\ UNCHANGED <<wire, wav, deleting, blobs, images, queued, running,
                   written, started, rearmed, finalized, received, riffAppends, reply>>

\* line 576: the size the handler adds to.  A request that appended holds the
\* row as it loaded it at line 426; one that inserted the row committed at
\* line 456, which expires it, and reads it afresh.
SizeBefore(M, r) == IF r.existing_session THEN r.loaded_size ELSE M[r.meeting].file_size

\* lines 573-596: the row written after a successful blob write
CommitSize(M, r, id, wrote, total, ts) ==
    IF r.meeting # NoMeeting
    THEN [M EXCEPT ![r.meeting].file_size = SizeBefore(M, r) + wrote,
                   ![r.meeting].upload_timestamp = ts]
    ELSE Put(M, id, MeetingRow(r.filename, r.blob_name, total, "processing",
                               r.mac, "mic", TRUE, ts))

\* a handler that goes on to the row after a blob write that raised
ReachesCommitAlways(ok, gone) == ~gone

\* lines 567-578: the handler reaches the commit of the row when no exception
\* left the blob write, and the commit goes through when the row still exists
ReachesCommit(ok, gone) == ok /\ ~gone

\* lines 474-622, from the body having arrived to the response
UploadFinish(r, chunk, faults) ==
    LET data == DataToWrite(r.existing_session, chunk)
        res  == StoreChunk(blobs, r.blob_name, r.existing_session, data, faults)
        id   == IF r.meeting = NoMeeting THEN nextId ELSE r.meeting
        gone == r.meeting # NoMeeting /\ r.meeting \notin DOMAIN meetings
    IN  /\ BagIn(r, reqs)
        /\ reqs' = reqs (-) SetToBag({r})
        /\ IF chunk.len = 0 \/ data.len = 0
           THEN \* lines 481-483, 541-542: nothing to write
                /\ reply' = "empty chunk"
                /\ UNCHANGED <<meetings, nextId, blobs, queued, now, written, started,
                               received, riffAppends>>
           ELSE /\ blobs' = res.blobs
                /\ IF ~ReachesCommit(res.ok, gone)
                   THEN \* line 571, or the commit of a deleted row raising
                        /\ reply' = "error"
                        /\ UNCHANGED <<meetings, nextId, queued, now, written, started,
                                       received, riffAppends>>
                   ELSE /\ reply' = "ok"
                        /\ meetings' = CommitSize(meetings, r, id, data.len, chunk.len, now)
                        /\ now' = now + 1
                        /\ nextId' = IF r.meeting = NoMeeting THEN nextId + 1 ELSE nextId
                        /\ written' = [written EXCEPT ![id] = @ + data.len]
                        /\ received' = [received EXCEPT ![id] = @ + chunk.len]
                        /\ riffAppends' = IF r.existing_session /\ chunk.riff
                                             /\ chunk.len > WAV_HEADER_LEN
                                          THEN Bump(riffAppends, id) ELSE riffAppends
                        /\ IF TriggersPipeline(r.filename, r.mac)
                           THEN queued' = Bump(queued, id) /\ started' = Bump(started, id)
                           ELSE UNCHANGED <<queued, started>>
        /\ UNCHANGED <<wire, wav, deleting, images, running, nCalls, rearmed, finalized>>

\* -------------------------------------------------- ai_engine.process_meeting
AddTask(q, id) == Bump(q, id)

\* a size check that lets every file through
TooShortNever(file_size) == FALSE

\* line 564: the minimum size check
TooShort(file_size) == file_size < MIN_AUDIO_BYTES

\* lines 496-570: fetch the row, fetch the audio, check its size.  Ends the
\* run with status failed when the audio is missing, cannot be downloaded or
\* is shorter than the minimum; otherwise the run goes on to the Transcriber.
AIStart(id, downloadFails) ==
    /\ queued[id] > 0
    /\ queued' = [queued EXCEPT ![id] = @ - 1]
    /\ IF id \notin DOMAIN meetings
       THEN UNCHANGED <<meetings, running>>                     \* line 499
       ELSE LET blob_name == meetings[id].file_path IN
            IF blob_name \notin DOMAIN blobs
            THEN /\ meetings' = [meetings EXCEPT ![id].status = "failed",
                                   ![id].summary = "Audio file missing (Blob)."]
                 /\ UNCHANGED running
            ELSE IF downloadFails
            THEN /\ meetings' = [meetings EXCEPT ![id].status = "failed",
                                   ![id].summary = "Download failed"]
                 /\ UNCHANGED running
            ELSE IF TooShort(blobs[blob_name].len)
            THEN /\ meetings' = [meetings EXCEPT ![id].status = "failed",
                                   ![id].summary = "Audio recording too short."]
                 /\ UNCHANGED running
            ELSE /\ running' = Bump(running, id)
                 /\ UNCHANGED meetings
    /\ UNCHANGED <<wire, wav, deleting, nextId, blobs, images, reqs, now, nCalls,
                   written, started, rearmed, finalized, received, riffAppends, reply>>

AIOutcomes == {"ok", "transcriber_raises", "summarizer_fails"}
\* the outcomes that differ in status or session fields
SessionOutcomes == {"ok", "transcriber_raises"}

\* a run that drops the Transcriber's exception without recording it
AIResultDropsError(row, outcome, ts) ==
    IF outcome = "transcriber_raises"
    THEN row
    ELSE [row EXCEPT !.transcription_text = TRUE,
                     !.summary = IF outcome = "ok" THEN "summary" ELSE "Summarization failed.",
                     !.status = "completed",
                     !.session_active = FALSE,
                     !.session_end_timestamp = ts]

\* lines 592-601 and 612-619: the columns the run writes when it ends
AIResult(row, outcome, ts) ==
    IF outcome = "transcriber_raises"
    THEN [row EXCEPT !.status = "failed", !.summary = "Processing failed"]
    ELSE [row EXCEPT !.transcription_text = TRUE,
                     !.summary = IF outcome = "ok" THEN "summary" ELSE "Summarization failed.",
                     !.status = "completed",
                     !.session_active = FALSE,
                     !.session_end_timestamp = ts]

\* lines 572-621: Transcriber, Summarizer, and the final commit
AIFinish(id, outcome) ==
    /\ running[id] > 0
    /\ running' = [running EXCEPT ![id] = @ - 1]
    /\ IF id \in DOMAIN meetings
       THEN /\ meetings' = [meetings EXCEPT ![id] = AIResult(@, outcome, now)]
            /\ now' = IF outcome = "transcriber_raises" THEN now ELSE now + 1
       ELSE UNCHANGED <<meetings, now>>     \* the row is gone: both commits raise
    /\ UNCHANGED <<wire, wav, deleting, nextId, blobs, images, reqs, queued, nCalls,
                   written, started, rearmed, finalized, received, riffAppends, reply>>

\* ------------------------------------------------------------------------ ack
\* line 642: the rows the query matches, by Meeting.filename
NamedRows(file) == {i \in DOMAIN meetings : meetings[i].filename = file}

\* lines 648-653: the answer for a row
AckAnswer(row) == IF row.status = "completed" THEN "done"
                  ELSE IF row.status = "failed" THEN "failed"
                  ELSE "processing"

\* GET /api/ack?file=...
Ack(file) ==
    /\ nCalls' = nCalls + 1
    /\ IF NamedRows(file) = {}
       THEN reply' = "not_found"                                         \* 404
       ELSE \E i \in Latest(NamedRows(file)) : reply' = AckAnswer(meetings[i])
    /\ UNCHANGED <<wire, wav, deleting, meetings, nextId, blobs, images, reqs, queued, running, now,
                   written, started, rearmed, finalized, received, riffAppends>>

\* ------------------------------------------------- the session endpoints
\* a finalize that stamps the end and leaves the session open
EndedRowStaysActive(row, ts) == [row EXCEPT !.session_end_timestamp = ts]

\* lines 967-968 and 1000-1001
EndedRow(row, ts) == [row EXCEPT !.session_active = FALSE, !.session_end_timestamp = ts]

\* POST /api/meetings/{id}/end_session
EndSession(id) ==
    /\ id \in DOMAIN meetings
    /\ nCalls' = nCalls + 1
    /\ meetings' = [meetings EXCEPT ![id] = EndedRow(@, now)]
    /\ now' = now + 1
    /\ queued' = AddTask(queued, id)
    /\ started' = Bump(started, id)
    /\ finalized' = Bump(finalized, id)
    /\ reply' = "ok"
    /\ UNCHANGED <<wire, wav, deleting, nextId, blobs, images, reqs, running,
                   written, rearmed, received, riffAppends>>

\* POST /api/end_session_by_mac
EndSessionByMac(mac) ==
    /\ nCalls' = nCalls + 1
    /\ IF ActiveSessionsOf(mac) = {}
       THEN /\ reply' = "no active session"                              \* 404
            /\ UNCHANGED <<meetings, now, queued, started, finalized>>
       ELSE \E id \in Latest(ActiveSessionsOf(mac)) :
              /\ meetings' = [meetings EXCEPT ![id] = EndedRow(@, now)]
              /\ now' = now + 1
              /\ queued' = AddTask(queued, id)
              /\ started' = Bump(started, id)
              /\ finalized' = Bump(finalized, id)
              /\ reply' = "session_ended"
    /\ UNCHANGED <<wire, wav, deleting, nextId, blobs, images, reqs, running,
                   written, rearmed, received, riffAppends>>

\* a reprocess that leaves the status as it found it
RearmedRowKeepsStatus(row) == [row EXCEPT !.session_active = FALSE]

\* a reprocess that opens the session again
RearmedRowReopens(row) == [row EXCEPT !.status = "processing", !.session_active = TRUE]

\* lines 946-947
RearmedRow(row) == [row EXCEPT !.status = "processing", !.session_active = FALSE]

\* POST /api/meetings/{id}/reprocess
Reprocess(id) ==
    /\ id \in DOMAIN meetings
    /\ nCalls' = nCalls + 1
    /\ IF meetings[id].status = "completed"
       THEN /\ reply' = "error"                                          \* 400
            /\ UNCHANGED <<meetings, queued, started, rearmed>>
       ELSE /\ meetings' = [meetings EXCEPT ![id] = RearmedRow(@)]
            /\ queued' = AddTask(queued, id)
            /\ started' = Bump(started, id)
            /\ rearmed' = Bump(rearmed, id)
            /\ reply' = "ok"
    /\ UNCHANGED <<wire, wav, deleting, nextId, blobs, images, reqs, running, now,
                   written, finalized, received, riffAppends>>

\* PATCH /api/meetings/{id}
RenameMeeting(id, new_filename) ==
    /\ id \in DOMAIN meetings
    /\ nCalls' = nCalls + 1
    /\ meetings' = [meetings EXCEPT ![id].filename = new_filename]
    /\ reply' = "ok"
    /\ UNCHANGED <<wire, wav, deleting, nextId, blobs, images, reqs, queued, running, now,
                   written, started, rearmed, finalized, received, riffAppends>>

\* lines 1022-1025: other rows naming the blob
OtherRefs(id, blob_name) ==
    {j \in DOMAIN meetings : j # id /\ (meetings[j].filename = blob_name
                                         \/ meetings[j].file_path = blob_name)}

\* DELETE /api/meetings/{id}
DeleteMeeting(id) ==
    /\ id \in DOMAIN meetings
    /\ nCalls' = nCalls + 1
    /\ LET audio  == IF OtherRefs(id, meetings[id].filename) = {}
                     THEN {meetings[id].filename} ELSE {}
           linked == {img \in images : img.meeting_id = ToString(id)}
           gone   == audio \cup {img.filename : img \in linked}
       IN  /\ blobs' = [n \in (DOMAIN blobs) \ gone |-> blobs[n]]
           /\ images' = images \ linked
    /\ meetings' = Drop(meetings, id)
    /\ reply' = "ok"
    /\ UNCHANGED <<wire, wav, deleting, nextId, reqs, queued, running, now,
                   written, started, rearmed, finalized, received, riffAppends>>

\* delete_meeting runs on a worker thread, and between the rows it reads and
\* its commit it calls the blob store.  DeleteMeeting above is the run that
\* no other request falls into; DeleteBegin and DeleteFinish are its halves.
\* A client sends one delete for a Recording at a time.

\* lines 1014-1045: the row is found, its audio blob is deleted when no other
\* row names it, and the images linked to it are listed
DeleteBegin(id) ==
    /\ id \in DOMAIN meetings
    /\ \A d \in deleting : d.id # id
    /\ nCalls' = nCalls + 1
    /\ LET audio == IF OtherRefs(id, meetings[id].filename) = {}
                    THEN {meetings[id].filename} ELSE {}
       IN  blobs' = [n \in (DOMAIN blobs) \ audio |-> blobs[n]]
    /\ deleting' = deleting \cup {[id |-> id,
                                   listed |-> {img \in images : img.meeting_id = ToString(id)}]}
    /\ UNCHANGED <<wire, wav, meetings, images, nextId, reqs, queued, running, now,
                   written, started, rearmed, finalized, received, riffAppends, reply>>

\* lines 1046-1063: the listed images' blobs and rows and the Recording's row
\* are deleted, and the transaction is committed
DeleteFinish(d) ==
    /\ d \in deleting
    /\ deleting' = deleting \ {d}
    /\ blobs' = [n \in (DOMAIN blobs) \ {img.filename : img \in d.listed} |-> blobs[n]]
    /\ images' = images \ d.listed
    /\ meetings' = Drop(meetings, d.id)
    /\ reply' = "ok"
    /\ UNCHANGED <<wire, wav, nextId, reqs, queued, running, now, nCalls,
                   written, started, rearmed, finalized, received, riffAppends>>

\* ------------------------------------------------------------ transcribe_file
\* f"upload_{meeting_id}.{file_ext}"
ManualBlobName(n) == "upload_" \o ToString(n) \o ".wav"

\* POST /api/transcribe: a manual upload.  The blob upload may fail and the
\* handler continues (lines 260-261).
TranscribeFile(filename, size, blobFails) ==
    /\ nCalls' = nCalls + 1
    /\ blobs' = IF blobFails THEN blobs
                ELSE Put(blobs, ManualBlobName(nextId), Chunk(TRUE, size))
    /\ meetings' = Put(meetings, nextId,
                       MeetingRow(filename, ManualBlobName(nextId), size, "processing",
                                  NoMac, "upload", FALSE, now))
    /\ nextId' = nextId + 1
    /\ now' = now + 1
    /\ queued' = AddTask(queued, nextId)
    /\ started' = Bump(started, nextId)
    /\ reply' = "ok"
    /\ UNCHANGED <<wire, wav, deleting, images, reqs, running, written, rearmed, finalized, received, riffAppends>>

\* --------------------------------------------------------------- upload_image
\* f"{device_type}_{uuid.uuid4()}.{file_ext}" for a device outside device_map
ImageBlobName(n) == "unknown_cam_" \o ToString(n) \o ".jpg"

ImageRow(meeting_id, name, mac) ==
    [meeting_id |-> meeting_id, filename |-> name, file_path |-> name, mac_address |-> mac]

\* lines 900-904: the sessions a capture may attach to
ActiveMic ==
    {i \in DOMAIN meetings : /\ meetings[i].session_active
                             /\ meetings[i].status = "processing"
                             /\ meetings[i].device_type = "mic"}

\* a fallback that does not look at the age of the recording
RecentMicAnyAge(t) ==
    {i \in DOMAIN meetings : /\ meetings[i].status = "processing"
                             /\ meetings[i].device_type = "mic"}

\* lines 907-913: the fallback, recordings touched in the last five minutes
RecentMic(t) ==
    {i \in DOMAIN meetings : /\ meetings[i].status = "processing"
                             /\ meetings[i].device_type = "mic"
                             /\ meetings[i].upload_timestamp >= t - RECENT_WINDOW}

\* lines 895-915: the meeting_id values the capture may be stored with
LinkTargets(t) ==
    IF ActiveMic # {} THEN {ToString(i) : i \in Latest(ActiveMic)}
    ELSE IF RecentMic(t) # {} THEN {ToString(i) : i \in Latest(RecentMic(t))}
    ELSE {"unassigned"}

ImageOutcomes == {"saved", "upload_raises", "commit_raises"}

\* POST /api/upload_image.  The blob upload may raise (answered at lines
\* 887-888), and so may the commit of the row, after the blob was stored.
UploadImage(mac, outcome) ==
    /\ nCalls' = nCalls + 1
    /\ IF outcome = "upload_raises"
       THEN /\ reply' = "error"
            /\ UNCHANGED <<blobs, images, nextId>>
       ELSE IF outcome = "commit_raises"
       THEN /\ blobs' = Put(blobs, ImageBlobName(nextId), Chunk(FALSE, 500))
            /\ nextId' = nextId + 1
            /\ reply' = "error"
            /\ UNCHANGED images
       ELSE \E target \in LinkTargets(now) :
              /\ blobs' = Put(blobs, ImageBlobName(nextId), Chunk(FALSE, 500))
              /\ images' = images \cup {ImageRow(target, ImageBlobName(nextId), mac)}
              /\ nextId' = nextId + 1
              /\ reply' = "saved"
    /\ UNCHANGED <<wire, wav, deleting, meetings, reqs, queued, running, now,
                   written, started, rearmed, finalized, received, riffAppends>>

\* the clients stay silent for d minutes
Wait(d) ==
    /\ now + d <= MaxClock
    /\ now' = now + d
    /\ UNCHANGED <<wire, wav, deleting, meetings, nextId, blobs, images, reqs, queued, running, nCalls,
                   written, started, rearmed, finalized, received, riffAppends, reply>>

\* ------------------------------------------------------ the startup sweep
IsImageName(n) == EndsWith(n, ".jpg") \/ EndsWith(n, ".jpeg") \/ EndsWith(n, ".png")
IsAudioName(n) == EndsWith(n, ".wav") \/ EndsWith(n, ".m4a") \/ EndsWith(n, ".mp3")
                  \/ EndsWith(n, ".webm") \/ EndsWith(n, ".ogg") \/ EndsWith(n, ".flac")

\* "live_stream" in name
RECURSIVE Contains(_, _)
Contains(s, p) == IF Len(s) < Len(p) THEN FALSE
                  ELSE StartsWith(s, p) \/ Contains(SubSeq(s, 2, Len(s)), p)

\* lines 130-132 and 162-163: audio blobs that no row names
OrphanAudio(M, B) ==
    {n \in DOMAIN B : /\ ~IsImageName(n) /\ IsAudioName(n)
                      /\ \A i \in DOMAIN M : M[i].filename # n /\ M[i].file_path # n}
\* lines 133-135 and 147-148: image blobs that no image row names
OrphanImages(I, B) ==
    {n \in DOMAIN B : IsImageName(n) /\ \A img \in I : img.filename # n /\ img.file_path # n}

\* an import that does not record the blob's name in the row
ImportedRowUnnamed(name, size, ts) ==
    MeetingRow("imported.wav", "imported.wav", size,
               IF size > REIMPORT_COMPLETED_BYTES THEN "completed" ELSE "processing",
               "", "mic", FALSE, ts)

\* lines 164-173: the row synthesized for an orphaned audio blob
ImportedRow(name, size, ts) ==
    MeetingRow(name, name, size,
               IF size > REIMPORT_COMPLETED_BYTES THEN "completed" ELSE "processing",
               IF Contains(name, "live_stream") THEN "MIC_DEVICE_01" ELSE "",
               "mic", FALSE, ts)

\* lines 150-157
ImportedImage(name) == [meeting_id |-> "", filename |-> name, file_path |-> name,
                        mac_address |-> ""]

\* the loop of lines 140-175 over the names in S, ids from n on
RECURSIVE ImportAll(_, _, _, _, _)
ImportAll(M, B, S, n, ts) ==
    IF S = {} THEN M
    ELSE LET name == CHOOSE x \in S : TRUE
         IN  ImportAll(Put(M, n, ImportedRow(name, B[name].len, ts)), B, S \ {name}, n + 1, ts)

\* a pass that re-queues without closing the sessions
RequeuedKeepsActive(M) == M

\* lines 199-205: every row found processing stops being an active session
Requeued(M) == [i \in DOMAIN M |-> IF M[i].status = "processing"
                                   THEN [M[i] EXCEPT !.session_active = FALSE] ELSE M[i]]
\* a pass that finds nothing to re-queue
StuckNone(M) == {}

\* a pass that takes every row for stuck
StuckWhateverStatus(M) == DOMAIN M

\* line 199: the rows the pass re-queues
Stuck(M) == {i \in DOMAIN M : M[i].status = "processing"}

\* The process dies and starts again: the requests and background tasks of
\* the old process are gone, the tables (database.py lines 15-29) and the
\* container are kept; then reimport_orphaned_blobs() and
\* requeue_stuck_meetings() run before the first request is served.
Restart ==
    LET orphans  == OrphanAudio(meetings, blobs)
        imported == ImportAll(meetings, blobs, orphans, nextId, now)
        stuck    == Stuck(imported)
    IN  /\ nCalls' = nCalls + 1
        /\ reqs' = EmptyBag
        /\ reply' = "none"
        /\ running' = [i \in Ids |-> 0]
        /\ images' = images \cup {ImportedImage(n) : n \in OrphanImages(images, blobs)}
        /\ meetings' = Requeued(imported)
        /\ nextId' = nextId + Cardinality(orphans)
        /\ now' = now + 1
        /\ queued' = [i \in Ids |-> IF i \in stuck THEN 1 ELSE 0]
        /\ started' = [i \in Ids |-> IF i \in stuck THEN started[i] + 1 ELSE started[i]]
        /\ rearmed' = [i \in Ids |-> IF i \in stuck THEN rearmed[i] + 1 ELSE rearmed[i]]
        /\ UNCHANGED <<wire, wav, deleting, blobs, written, finalized, received, riffAppends>>

\* ------------------------------------------------------------ specifications
\* the calls a client makes
Request(uploadNames, macs) ==
    \/ \E f \in uploadNames, mac \in macs : UploadBegin(f, mac)
    \/ \E id \in Ids : EndSession(id)
    \/ \E mac \in Devices : EndSessionByMac(mac)
    \/ \E id \in Ids : Reprocess(id)
    \/ \E id \in Ids, n \in RenameNames : RenameMeeting(id, n)
    \/ \E id \in Ids : DeleteMeeting(id)

\* Spec: the microphone and session endpoints, the AI task and restarts,
\* interleaved
Next ==
    \/ nCalls < MaxCalls /\ Request(UploadNames, Macs)
    \/ nCalls < MaxCalls /\ Restart
    \/ \E r \in BagToSet(reqs), c \in SessionChunks, F \in SessionFaults : UploadFinish(r, c, F)
    \/ \E id \in Ids : AIStart(id, FALSE)
    \/ \E id \in Ids, o \in SessionOutcomes : AIFinish(id, o)

Spec == Init /\ [][Next]_vars

\* SpecSeq: one device streaming live.wav, a chunk at a time as the firmware
\* does (each request is sent after the response to the one before), with
\* every body kind and storage fault, and the AI task running beside it
NextSeq ==
    \/ nCalls < MaxCalls /\ reqs = EmptyBag /\ \E mac \in Devices : UploadBegin("live.wav", mac)
    \/ \E r \in BagToSet(reqs), c \in Chunks, F \in FaultCases : UploadFinish(r, c, F)
    \/ \E id \in Ids, d \in BOOLEAN : AIStart(id, d)
    \/ \E id \in Ids, o \in AIOutcomes : AIFinish(id, o)

SpecSeq == Init /\ [][NextSeq]_vars

\* SpecCam: two microphones streaming a chunk at a time, manual uploads,
\* camera captures and the AI task, with time passing between the requests
NextCam ==
    \/ nCalls < MaxCalls /\ reqs = EmptyBag
                          /\ \E mac \in MicDevices : UploadBegin("live.wav", mac)
    \/ \E r \in BagToSet(reqs) : UploadFinish(r, Chunk(TRUE, 2000), {})
    \/ nCalls < MaxCalls /\ \E id \in Ids : EndSession(id)
    \/ nCalls < MaxCalls /\ \E f \in ManualNames : TranscribeFile(f, 2000, FALSE)
    \/ nCalls < MaxCalls /\ \E mac \in Devices, o \in ImageOutcomes : UploadImage(mac, o)
    \/ \E d \in Waits : Wait(d)
    \/ \E id \in Ids : AIStart(id, FALSE)
    \/ \E id \in Ids : AIFinish(id, "ok")

SpecCam == Init /\ [][NextCam]_vars

\* SpecBoot: what a restart finds.  A microphone streaming, manual uploads,
\* camera captures, finalize, reprocess, deletes and the AI task, with
\* restarts between them
NextBoot ==
    \/ nCalls < MaxCalls /\ \E mac \in Devices : UploadBegin("live.wav", mac)
    \/ \E r \in BagToSet(reqs) : UploadFinish(r, Chunk(TRUE, 2000), {})
    \/ nCalls < MaxCalls /\ \E f \in ManualNames : TranscribeFile(f, 2000, FALSE)
    \/ nCalls < MaxCalls /\ \E mac \in Devices, o \in ImageOutcomes : UploadImage(mac, o)
    \/ nCalls < MaxCalls /\ \E id \in Ids : EndSession(id)
    \/ nCalls < MaxCalls /\ \E id \in Ids : Reprocess(id)
    \/ nCalls < MaxCalls /\ \E id \in Ids : DeleteMeeting(id)
    \/ nCalls < MaxCalls /\ Restart
    \/ \E id \in Ids : AIStart(id, FALSE)
    \/ \E id \in Ids, o \in SessionOutcomes : AIFinish(id, o)

SpecBoot == Init /\ [][NextBoot]_vars

\* SpecKeys: display names and storage keys.  A device streaming and posting
\* frames to the upload endpoint a request at a time, manual uploads, renames,
\* deletes, status polls, the AI task and restarts
NextKeys ==
    \/ nCalls < MaxCalls /\ reqs = EmptyBag
                          /\ \E f \in DeviceNames, mac \in Devices : UploadBegin(f, mac)
    \/ \E r \in BagToSet(reqs) : UploadFinish(r, Chunk(TRUE, 2000), {})
    \/ nCalls < MaxCalls /\ \E f \in ManualNames, n \in ManualSizes, b \in BOOLEAN :
                                TranscribeFile(f, n, b)
    \/ nCalls < MaxCalls /\ \E id \in Ids, n \in RenameNames : RenameMeeting(id, n)
    \/ nCalls < MaxCalls /\ \E id \in Ids : DeleteMeeting(id)
    \/ nCalls < MaxCalls /\ \E f \in AckNames : Ack(f)
    \/ nCalls < MaxCalls /\ Restart
    \/ \E id \in Ids : AIStart(id, FALSE)
    \/ \E id \in Ids : AIFinish(id, "ok")

SpecKeys == Init /\ [][NextKeys]_vars

\* SpecLive: one device streaming a chunk at a time, finalize by either
\* endpoint and restarts, with the AI task scheduled fairly: a background task
\* that was added is started, and the Transcriber and the Summarizer return
\* or raise (run_background_process runs each task on the thread pool; the
\* tasks of a process that died are gone)
NextLive ==
    \/ nCalls < MaxCalls /\ reqs = EmptyBag /\ \E mac \in Devices : UploadBegin("live.wav", mac)
    \/ \E r \in BagToSet(reqs), c \in SessionChunks : UploadFinish(r, c, {})
    \/ nCalls < MaxCalls /\ \E id \in Ids : EndSession(id)
    \/ nCalls < MaxCalls /\ \E mac \in Devices : EndSessionByMac(mac)
    \/ nCalls < MaxCalls /\ Restart
    \/ \E id \in Ids, d \in BOOLEAN : AIStart(id, d)
    \/ \E id \in Ids, o \in AIOutcomes : AIFinish(id, o)

Fairness ==
    \A id \in Ids : /\ WF_vars(\E d \in BOOLEAN : AIStart(id, d))
                     /\ WF_vars(\E o \in AIOutcomes : AIFinish(id, o))

SpecLive == Init /\ [][NextLive]_vars /\ Fairness

\* SpecWire: the transport normaliser on framed bodies
NextWire == SendFramed \/ NormalizeBegin \/ DechunkLoop

SpecWire == InitWire /\ [][NextWire]_vars

\* SpecLink: a microphone streaming and a camera posting captures while
\* Recordings are deleted, the delete in its two halves
NextLink ==
    \/ nCalls < MaxCalls /\ reqs = EmptyBag /\ \E mac \in Devices : UploadBegin("live.wav", mac)
    \/ \E r \in BagToSet(reqs) : UploadFinish(r, Chunk(TRUE, 2000), {})
    \/ nCalls < MaxCalls /\ \E mac \in Devices, o \in ImageOutcomes : UploadImage(mac, o)
    \/ nCalls < MaxCalls /\ \E id \in Ids : DeleteBegin(id)
    \/ \E d \in deleting : DeleteFinish(d)

SpecLink == Init /\ [][NextLink]_vars

\* SpecRaw: the transport normaliser on bodies of any shape
NextRaw == NormalizeBegin \/ DechunkLoop

SpecRaw == InitRaw /\ [][NextRaw]_vars

\* SpecWav: the two header repairs
NextWav == RepairFile \/ ServeAudio

SpecWav == InitWav /\ [][NextWav]_vars

\* ===================================================================== claims
\* the rows started by the live branch of upload_chunk (lines 445-454)
IsLiveSession(row) ==
    /\ row.mac_address \in Devices
    /\ row.device_type = "mic"
    /\ StartsWith(row.file_path, "live_stream_")

LiveSessions == {i \in DOMAIN meetings : IsLiveSession(meetings[i])}

\* rows that exist before and after a step
Kept == (DOMAIN meetings) \cap (DOMAIN meetings')

\* C1: in every reachable state, for every device d there is at most one
\* Recording with deviceId = d, sessionActive = true and status = processing.
C1_AtMostOneActiveSession ==
    \A d \in Devices :
        Cardinality({i \in DOMAIN meetings : /\ meetings[i].mac_address = d
                                             /\ meetings[i].session_active
                                             /\ meetings[i].status = "processing"}) <= 1

\* C2: when a first-chunk request for live.wav has started a session for a
\* device and is still receiving its body, and that session is the device's
\* active one, a second live.wav request of the device that begins creates no
\* Recording and resolves to the first request's session.
C2_SecondJoinsFirst ==
    [][\A r1 \in BagToSet(reqs), q \in BagToSet(reqs') :
          ( /\ CopiesIn(q, reqs') > CopiesIn(q, reqs)
            /\ IsLive(q.filename, q.mac) /\ IsLive(r1.filename, r1.mac)
            /\ q.mac = r1.mac
            /\ ~r1.existing_session
            /\ ActiveSessionsOf(r1.mac) = {r1.meeting} )
          => ( /\ DOMAIN meetings' = DOMAIN meetings
               /\ q.existing_session
               /\ q.meeting = r1.meeting )]_vars

\* C2 witness: two requests of one device are receiving their bodies, one
\* that started the session and one that resolved to it
C2_Witness ==
    \E r1, r2 \in BagToSet(reqs) :
        /\ IsLive(r1.filename, r1.mac) /\ r1.mac = r2.mac
        /\ ~r1.existing_session /\ r2.existing_session
        /\ r2.meeting = r1.meeting
        /\ Cardinality(DOMAIN meetings) = 1

\* C3: without a restart or a reprocess, the AI pipeline is started exactly
\* once for each finalized live-session Recording and never for one that has
\* not been finalized (appending a chunk does not start it).
C3_PipelineOncePerFinalize ==
    \A i \in LiveSessions :
        started[i] - rearmed[i] = IF finalized[i] > 0 THEN 1 ELSE 0

\* C4: a Recording whose status is completed or failed has sessionActive =
\* false (it went through processing(inactive), that is through a finalize).
C4_TerminalIsInactive ==
    \A i \in DOMAIN meetings :
        meetings[i].status \in {"completed", "failed"} => ~meetings[i].session_active

\* C5: once a Recording has been finalized, a later finalize starts no AI
\* pipeline run, and sessionEndedAt keeps the value the first finalize set:
\* no later finalize or AI completion changes it.
C5_FinalizeOnce ==
    [][\A i \in Kept :
          finalized[i] > 0 =>
              /\ meetings'[i].session_end_timestamp = meetings[i].session_end_timestamp
              /\ finalized'[i] = finalized[i]]_vars

\* C6: for every Recording, sessionActive never changes from false to true
\* under any operation, so it changes from true to false at most once.
C6_SessionActiveIrreversible ==
    [][\A i \in Kept :
          ~meetings[i].session_active => ~meetings'[i].session_active]_vars

\* C6 witness: a Recording that was finalized and then handed to the pipeline
\* again, by a reprocess or by the recovery sweep, is still inactive
C6_Witness ==
    \E i \in DOMAIN meetings :
        /\ finalized[i] > 0 /\ rearmed[i] > 0
        /\ ~meetings[i].session_active

\* the length of the blob backing a Recording, 0 when there is none
BlobLen(row) == IF row.filename \in DOMAIN blobs THEN blobs[row.filename].len ELSE 0

\* C7: after any sequence of appends to one live-session Recording, fallback
\* writes included, byteSize is the sum of the lengths written and is the
\* length of the backing blob.
C7_SizeIsWrittenIsBlob ==
    \A i \in LiveSessions :
        reqs = EmptyBag =>
            /\ meetings[i].file_size = written[i]
            /\ meetings[i].file_size = BlobLen(meetings[i])

\* C8: when two upload requests for the same session overlap, byteSize is the
\* sum of both written lengths once both have answered.
C8_NoLostUpdate ==
    \A i \in LiveSessions :
        reqs = EmptyBag => meetings[i].file_size = written[i]

\* C9: byteSize of a Recording never decreases, and it changes only in a step
\* in which an append for that Recording succeeded.
C9_SizeMonotone ==
    [][\A i \in Kept :
          /\ meetings'[i].file_size >= meetings[i].file_size
          /\ meetings'[i].file_size # meetings[i].file_size => written'[i] > written[i]]_vars

\* C10: the bytes written for a Recording are the bytes received less 44 for
\* every RIFF-led body longer than 44 bytes that was appended to the existing
\* session and nothing for any other body, and byteSize is their sum; three
\* 1000-byte chunks give 2912 when chunks 2 and 3 are RIFF-led, 3000 when not.
C10_HeaderSkip ==
    \A i \in DOMAIN meetings :
        /\ written[i] = received[i] - WAV_HEADER_LEN * riffAppends[i]
        /\ meetings[i].file_size = written[i]

\* C10 witness: three 1000-byte chunks, the second and third RIFF-led
C10_Witness ==
    \E i \in DOMAIN meetings :
        /\ received[i] = 3000 /\ riffAppends[i] = 2
        /\ meetings[i].file_size = 2912

\* C11: the write that establishes the blob of a live session stores the
\* request body as received, its RIFF header included, whatever requests
\* came before it.
C11_FirstWriteAsReceived ==
    [][\A i \in Kept :
          ( /\ IsLiveSession(meetings[i])
            /\ meetings[i].filename \notin DOMAIN blobs
            /\ meetings[i].filename \in DOMAIN blobs'
            /\ received'[i] > received[i] )
          => /\ blobs'[meetings[i].filename].len = received'[i] - received[i]
             /\ riffAppends'[i] = riffAppends[i]]_vars

\* the upload requests answered by a step
Answered == {r \in BagToSet(reqs) : CopiesIn(r, reqs') < CopiesIn(r, reqs)}

\* the request inserted a Recording before it read its body
InsertedRow(r) == r.meeting # NoMeeting /\ ~r.existing_session

\* C12: an upload request with an empty body is a no-op success: from its
\* arrival to its answer it leaves the set of Recordings, their fields and
\* the blob store as they were, for live and non-live filenames alike.
C12_EmptyBodyNoOp ==
    [][\A r \in Answered :
          reply' = "empty chunk" =>
              /\ meetings' = meetings
              /\ blobs' = blobs
              /\ ~InsertedRow(r)]_vars

\* C13: when the blob write of an append fails, the append and its fallback
\* both, the request is answered with an error and the Recording's byteSize
\* and lastActivityAt are unchanged.
C13_FailedWriteChangesNothing ==
    [][\A r \in Answered, c \in Chunks, F \in FaultCases :
          ( /\ UploadFinish(r, c, F)
            /\ r.meeting \in DOMAIN meetings
            /\ DataToWrite(r.existing_session, c).len > 0
            /\ ~StoreChunk(blobs, r.blob_name, r.existing_session,
                           DataToWrite(r.existing_session, c), F).ok )
          => /\ reply' = "error"
             /\ meetings'[r.meeting].file_size = meetings[r.meeting].file_size
             /\ meetings'[r.meeting].upload_timestamp = meetings[r.meeting].upload_timestamp]_vars

\* C13 witness: an append to a session that already holds bytes has just
\* been answered with an error
C13_Witness ==
    /\ reply = "error"
    /\ reqs = EmptyBag
    /\ \E i \in LiveSessions : meetings[i].file_size > 0 /\ meetings[i].file_size = written[i]

\* the capture rows stored by a step
NewImages == images' \ images

AsLinks(S) == {ToString(i) : i \in S}

\* C14: a capture sent with device id D while D has an active processing
\* Recording is linked to a Recording of D, whatever sessions other devices
\* have.
C14_LinkedToOwnDevice ==
    [][\A img \in NewImages :
          ActiveSessionsOf(img.mac_address) # {}
              => img.meeting_id \in AsLinks(ActiveSessionsOf(img.mac_address))]_vars

\* Recordings of any kind that are active and processing
ActiveProcessing ==
    {i \in DOMAIN meetings : meetings[i].session_active /\ meetings[i].status = "processing"}

\* Recordings of any kind that are processing and were touched in the window
RecentProcessing ==
    {i \in DOMAIN meetings : /\ meetings[i].status = "processing"
                             /\ meetings[i].upload_timestamp >= now - RECENT_WINDOW}

C16_TerminalUntilReprocess ==
    [][\A i \in Kept :
          ( /\ meetings[i].status \in {"completed", "failed"}
            /\ meetings'[i].status # meetings[i].status )
          => rearmed'[i] > rearmed[i]]_vars

\* C17: reprocess of a failed Recording sets status processing and
\* sessionActive false, keeps id and storageKey, and starts the AI pipeline;
\* reprocess of a completed Recording is answered with an error and changes
\* nothing; reprocess never sets sessionActive to true.
C17_Reprocess ==
    [][\A id \in Ids :
          Reprocess(id) =>
              /\ meetings[id].status = "failed" =>
                    /\ id \in DOMAIN meetings'
                    /\ meetings'[id].status = "processing"
                    /\ ~meetings'[id].session_active
                    /\ meetings'[id].file_path = meetings[id].file_path
                    /\ meetings'[id].filename = meetings[id].filename
                    /\ started'[id] = started[id] + 1
                    /\ queued'[id] = queued[id] + 1
              /\ meetings[id].status = "completed" =>
                    /\ reply' = "error"
                    /\ UNCHANGED <<meetings, blobs, images, queued, running, started>>
              /\ ~meetings'[id].session_active \/ meetings[id].session_active]_vars

\* C17 witness: a Recording that had failed is processing again after a
\* reprocess call, its session closed
C17_Witness ==
    \E i \in DOMAIN meetings :
        /\ rearmed[i] > 0 /\ reply = "ok"
        /\ meetings[i].status = "processing"
        /\ meetings[i].summary = "Processing failed"
        /\ ~meetings[i].session_active

\* C18: in a restart, every Recording that is processing at boot is kept,
\* has sessionActive set to false, and has the AI pipeline started for it
\* exactly once.
C18_StuckRequeuedOnce ==
    [][Restart =>
          /\ \A i \in DOMAIN meetings :
                meetings[i].status = "processing" =>
                    i \in DOMAIN meetings' /\ meetings'[i].status = "processing"
          /\ \A i \in DOMAIN meetings' :
                meetings'[i].status = "processing" =>
                    /\ ~meetings'[i].session_active
                    /\ started'[i] = started[i] + 1
                    /\ queued'[i] = 1 /\ running'[i] = 0]_vars

\* C18 witness: the process has just restarted over a session that was
\* still recording; the session is closed and one run is pending for it
C18_Witness ==
    /\ reply = "none"
    /\ \E i \in DOMAIN meetings :
          /\ meetings[i].status = "processing" /\ ~meetings[i].session_active
          /\ finalized[i] = 0 /\ written[i] > 0
          /\ rearmed[i] = 1 /\ queued[i] = 1

\* C19: a restart starts no AI pipeline run for, and changes no field of, a
\* Recording that is completed or failed at boot.
C19_SweepLeavesTerminal ==
    [][Restart =>
          \A i \in DOMAIN meetings :
              meetings[i].status \in {"completed", "failed"} =>
                  /\ i \in DOMAIN meetings'
                  /\ meetings'[i] = meetings[i]
                  /\ started'[i] = started[i]
                  /\ queued'[i] = 0 /\ running'[i] = 0]_vars

\* C19 witness: the process has just restarted over a Recording that had
\* reached a terminal status, and no run was started for it
C19_Witness ==
    /\ reply = "none"
    /\ \E i \in DOMAIN meetings :
          /\ meetings[i].status \in {"completed", "failed"}
          /\ written[i] > 0 /\ rearmed[i] = 0
          /\ queued[i] = 0 /\ running[i] = 0

\* C20: after the orphan import has run, a second run over the same blob
\* store finds nothing to import: it would add no Recording and no
\* AuxiliaryMedia row.
C20_ImportIdempotent ==
    [][Restart =>
          /\ OrphanAudio(meetings', blobs') = {}
          /\ OrphanImages(images', blobs') = {}
          /\ ImportAll(meetings', blobs', OrphanAudio(meetings', blobs'), nextId', now')
                = meetings']_vars

\* C20 witness: the process has just restarted and the import has added a
\* Recording for an audio blob that no row named
C20_Witness ==
    /\ reply = "none"
    /\ \E i \in DOMAIN meetings :
          /\ meetings[i].mac_address \in {"", "MIC_DEVICE_01"}
          /\ meetings[i].filename \in DOMAIN blobs
          /\ written[i] = 0 /\ started[i] = rearmed[i]
\* the rows a restart adds to the two tables
ImportedMeetings == {meetings'[i] : i \in (DOMAIN meetings') \ (DOMAIN meetings)}
ImportedImages == images' \ images

\* the blob names some row had for its storage key when the process started
ReferencedKeys == {meetings[i].file_path : i \in DOMAIN meetings}
                      \cup {img.file_path : img \in images}

\* C21: the orphan import adds a record only for a blob that no Recording and
\* no AuxiliaryMedia row has as its storage key, whichever endpoint created
\* the row and whichever kind of blob it is.
C21_ImportsOnlyUnreferenced ==
    [][Restart =>
          /\ \A row \in ImportedMeetings : row.file_path \notin ReferencedKeys
          /\ \A img \in ImportedImages : img.file_path \notin ReferencedKeys]_vars

\* the other Recordings stored under the blob that Recording id is stored under
SharesKey(id) == {j \in (DOMAIN meetings) \ {id} : meetings[j].file_path = meetings[id].file_path}

\* C22: deleting a Recording removes it and every AuxiliaryMedia row linked
\* to it, and deletes the blob named by its storage key exactly when no other
\* Recording has the same storage key, also when its display name differs
\* from the storage key.
C22_DeleteCascades ==
    [][\A id \in DOMAIN meetings :
          DeleteMeeting(id) =>
              /\ id \notin DOMAIN meetings'
              /\ \A img \in images' : img.meeting_id # ToString(id)
              /\ meetings[id].file_path \in DOMAIN blobs =>
                    (meetings[id].file_path \notin DOMAIN blobs' <=> SharesKey(id) = {})]_vars

\* the bytes stored under blob name n in container B
StoredLen(B, n) == IF n \in DOMAIN B THEN B[n].len ELSE 0

\* C23: the storage key does not follow the display name: every append to a
\* live session, also after the Recording was renamed, adds its bytes to the
\* blob named by the Recording's storage key.
C23_AppendsFollowStorageKey ==
    [][\A r \in Answered :
          (r.existing_session /\ r.meeting \in Kept
                              /\ IsLiveSession(meetings[r.meeting])
                              /\ written'[r.meeting] > written[r.meeting]) =>
              StoredLen(blobs', meetings[r.meeting].file_path)
                  = StoredLen(blobs, meetings[r.meeting].file_path)
                        + (written'[r.meeting] - written[r.meeting])]_vars

\* the live sessions of device d that the upload endpoint started
LiveSessionsOf(d) == {i \in LiveSessions : meetings[i].mac_address = d}

\* C24: ack(file) answers for the most recent Recording whose display name
\* is file ("done", "failed", "processing", or not found when there is
\* none); and while a device has a session it streamed to live.wav,
\* ack?file=live.wav answers for that session: "processing" while it is
\* processing, "done" once it is completed.
C24_AckLive ==
    [][\A f \in AckNames :
          Ack(f) =>
              /\ reply' \in IF NamedRows(f) = {} THEN {"not_found"}
                             ELSE {AckAnswer(meetings[i]) : i \in Latest(NamedRows(f))}
              /\ \A d \in Devices :
                    (f = "live.wav" /\ LiveSessionsOf(d) # {}) =>
                        reply' \in {AckAnswer(meetings[i]) : i \in Latest(LiveSessionsOf(d))}]_vars

\* the Recordings of device d that are active and processing
OpenSessionsOf(d) == {i \in DOMAIN meetings : /\ meetings[i].mac_address = d
                                               /\ meetings[i].session_active
                                               /\ meetings[i].status = "processing"}

\* C25: the device-keyed finalize, when the device has exactly one active
\* processing Recording, closes that Recording, stamps its end and starts one
\* AI pipeline run for it, leaving every other Recording as it was; when the
\* device has none it answers not found, changes no Recording and starts no
\* run.
C25_EndByMac ==
    [][\A d \in Devices :
          EndSessionByMac(d) =>
              /\ OpenSessionsOf(d) = {} =>
                    /\ reply' = "no active session"
                    /\ meetings' = meetings
                    /\ started' = started /\ queued' = queued /\ finalized' = finalized
              /\ \A i \in OpenSessionsOf(d) :
                    Cardinality(OpenSessionsOf(d)) = 1 =>
                        /\ reply' = "session_ended"
                        /\ ~meetings'[i].session_active
                        /\ meetings'[i].session_end_timestamp = now
                        /\ finalized'[i] = finalized[i] + 1
                        /\ started'[i] = started[i] + 1
                        /\ queued'[i] = queued[i] + 1
                        /\ \A j \in (DOMAIN meetings) \ {i} :
                              /\ meetings'[j] = meetings[j]
                              /\ started'[j] = started[j] /\ queued'[j] = queued[j]]_vars

\* C25 witness: the device has just ended its session by its address, after
\* bytes were stored for it, and the run that the finalize started is pending
C25_Witness ==
    /\ reply = "session_ended"
    /\ \E i \in LiveSessions :
          /\ ~meetings[i].session_active /\ meetings[i].session_end_timestamp # NoTime
          /\ finalized[i] = 1 /\ written[i] > 0 /\ queued[i] > 0

C27_SummarizerErrorRecorded ==
    [][\A i \in DOMAIN meetings :
          AIFinish(i, "summarizer_fails") => meetings'[i].status = "failed"]_vars

\* the audio the run would fetch for the row is missing or under the minimum
AudioUnusable(row) ==
    \/ row.file_path \notin DOMAIN blobs
    \/ blobs[row.file_path].len < MIN_AUDIO_BYTES

C29_FinalizedTerminates ==
    \A i \in Ids :
        (i \in DOMAIN meetings /\ finalized[i] > 0)
            ~> (i \in DOMAIN meetings /\ meetings[i].status \in {"completed", "failed"})

\* C29 witness: a finalized Recording whose run was lost in a restart has
\* been taken up by the recovery sweep and completed
C29_Witness ==
    \E i \in DOMAIN meetings :
        /\ finalized[i] > 0 /\ rearmed[i] > 0
        /\ meetings[i].status = "completed"
        /\ queued[i] = 0 /\ running[i] = 0

\* C30: for every payload and every way of cutting it into chunks, the
\* framed body (length line in hexadecimal, CRLF, data, CRLF, ..., the
\* zero-length chunk), passed through the normaliser, is the payload.
C30_NormalizeRoundTrip ==
    wire.stage = "normalized" => wire.out = wire.payload

\* C30 witness: a payload that itself holds a CRLF and a digit, sent in two
\* or more chunks, has come out of the normaliser as it was
C30_Witness ==
    /\ wire.stage = "normalized" /\ wire.out = wire.payload
    /\ Len(wire.cuts) >= 2
    /\ FindCRLF(wire.payload, 0) >= 0
    /\ wire.body # wire.payload

\* a body whose first CRLF ends a line of one to eight bytes that int() reads
FirstLineIsHex(buf) ==
    \E e \in 1..MAX_SIZE_LINE :
        /\ e + 2 <= Len(buf)
        /\ buf[e + 1] = CR /\ buf[e + 2] = LF
        /\ \A i \in 1..e : ~(buf[i] = CR /\ buf[i + 1] = LF)
        /\ IsHexInteger(SubSeq(buf, 1, e))

\* the loop stands at a line that ends in CRLF and that int() does not read
BadSizeLineAhead ==
    /\ wire.stage = "decoding"
    /\ FindCRLF(wire.body, wire.pos) >= 0
    /\ ~IsHexInteger(Slice(wire.body, wire.pos, FindCRLF(wire.body, wire.pos)))

\* C31: the normaliser rejects nothing.  A body that begins with RIFF, or
\* whose first line is no hexadecimal integer, is passed on byte for byte; and
\* when a size line met later does not parse, the decoding ends with the bytes
\* from that line on appended, as they came, to what was decoded before.
C31_NeverRejects ==
    [][ /\ (NormalizeBegin /\ (StartsWith(wire.body, RIFF) \/ ~FirstLineIsHex(wire.body)))
            => (wire'.stage = "normalized" /\ wire'.out = wire.body)
        /\ (DechunkLoop /\ BadSizeLineAhead)
            => /\ wire'.stage = "normalized"
               /\ wire'.out = wire.out \o SliceFrom(wire.body, wire.pos) ]_vars

\* a chunk was decoded and the line after it could not be read: the output is
\* the chunk followed by that line and what came after it
C31_Witness ==
    /\ wire.stage = "normalized" /\ wire.exit = "bad_size"
    /\ wire.pos > 0
    /\ Len(wire.out) > Len(SliceFrom(wire.body, wire.pos))
    /\ wire.out # wire.body

\* C37: the decoder loop ends on every body: each pass that is followed by
\* another leaves the decode position further on than it found it.
C37_PositionAdvances ==
    [][(wire.stage = "decoding" /\ wire'.stage = "decoding") => wire'.pos > wire.pos]_vars

\* 256^k, the weight of byte k of a little-endian number
Pow256(k) == IF k = 0 THEN 1 ELSE IF k = 1 THEN 256 ELSE IF k = 2 THEN 65536 ELSE 16777216

\* `fixed` is `buf` with the two size fields set to what its length calls for
\* when it is a RIFF buffer of header length or more, and `buf` itself otherwise
Repaired(buf, fixed) ==
    IF Len(buf) >= WAV_HEADER_LEN /\ StartsWith(buf, RIFF)
    THEN /\ Len(fixed) = Len(buf)
         /\ \A k \in 0..3 : /\ fixed[5 + k] = ((Len(buf) - 8) \div Pow256(k)) % 256
                            /\ fixed[41 + k] = ((Len(buf) - 44) \div Pow256(k)) % 256
         /\ \A i \in 1..Len(buf) : i \notin (5..8) \cup (41..44) => fixed[i] = buf[i]
    ELSE fixed = buf

\* C32: the header repair of a buffer of length L that begins with RIFF, L at
\* least 44, gives bytes 4-8 = L-8 and bytes 40-44 = L-44, little-endian, and
\* leaves every other byte and the length alone; any other buffer comes back
\* unchanged.  Both the repair of the file and the patch on playback do this.
C32_HeaderRepaired ==
    /\ wav.runs = 1 => Repaired(wav.orig, wav.file)
    /\ wav.plays > 0 => Repaired(wav.file, wav.served)

\* a file of 304 bytes with the streaming placeholder in both fields was
\* repaired and served
C32_Witness ==
    /\ wav.runs = 1 /\ wav.plays > 0 /\ wav.wrote
    /\ Len(wav.orig) > 256 + WAV_HEADER_LEN
    /\ SubSeq(wav.orig, 5, 8) = <<255, 255, 255, 255>>
    /\ wav.file # wav.orig /\ wav.served = wav.file

\* C33: the header repair is idempotent: run on what it produced, it changes
\* nothing, and on a header that is already correct it writes nothing.
C33_RepairIdempotent ==
    /\ [][(RepairFile /\ wav.runs >= 1) => (wav'.file = wav.file /\ ~wav'.wrote)]_vars
    /\ [](wav.plays > 0 => PatchedForPlayback(wav.served) = wav.served)

\* a file whose header was wrong has been through the repair twice
C33_Witness ==
    /\ wav.runs = 2 /\ ~wav.wrote
    /\ wav.file # wav.orig

\* the rows a step inserts
Inserted == (DOMAIN meetings') \ (DOMAIN meetings)

\* C34: starting a new live session creates a Recording whose storage key
\* differs from the key of every Recording there is, with status processing,
\* sessionActive true and byteSize 0, and the row is committed before any byte
\* of the request is written to the blob store.
C34_SessionRowFirst ==
    [][\A m \in Inserted :
          (\E mac \in Devices : UploadBegin("live.wav", mac)) =>
              /\ meetings'[m].status = "processing"
              /\ meetings'[m].session_active
              /\ meetings'[m].file_size = 0
              /\ \A j \in DOMAIN meetings : meetings[j].filename # meetings'[m].filename
              /\ blobs' = blobs
              /\ meetings'[m].filename \notin DOMAIN blobs'
              /\ written'[m] = 0]_vars

\* a second session has been started: its row is there beside the first
\* session's, its request is still receiving, and no blob bears its key
C34_Witness ==
    \E m \in LiveSessions, r \in BagToSet(reqs) :
        /\ r.meeting = m /\ InsertedRow(r)
        /\ meetings[m].file_size = 0 /\ meetings[m].session_active
        /\ meetings[m].filename \notin DOMAIN blobs
        /\ \E j \in LiveSessions : j # m /\ meetings[j].filename \in DOMAIN blobs

\* C35: where nothing finalizes and the process is not restarted, an active
\* session stays open: no step sets sessionActive of a live-session Recording
\* from true to false.
C35_ActiveStaysOpen ==
    [][\A i \in Kept :
          (IsLiveSession(meetings[i]) /\ meetings[i].session_active)
              => meetings'[i].session_active]_vars

\* C36: once sessionActive is false, no upload request changes the
\* Recording's byteSize or its blob, the request that resolved the session
\* before the finalize and was still receiving its body included.
C36_EndedSessionFrozen ==
    [][\A r \in Answered :
          (r.meeting \in Kept /\ ~meetings[r.meeting].session_active) =>
              /\ meetings'[r.meeting].file_size = meetings[r.meeting].file_size
              /\ StoredLen(blobs', meetings[r.meeting].file_path)
                    = StoredLen(blobs, meetings[r.meeting].file_path)]_vars

\* C38: in every reachable state every AuxiliaryMedia row's recordingId is
\* "unassigned", empty, or the id of a Recording that exists, also where a
\* camera upload meets a delete of the Recording it resolved.
C38_LinksResolve ==
    \A img \in images :
        \/ img.meeting_id \in {"unassigned", ""}
        \/ img.meeting_id \in AsLinks(DOMAIN meetings)

\* C39: an upload that fails with a storage error is answered with an error
\* and leaves no new Recording behind, also when it was the first chunk of a
\* new live session.
C39_FailedUploadLeavesNoRow ==
    [][\A r \in Answered :
          reply' = "error" =>
              /\ DOMAIN meetings' \subseteq DOMAIN meetings
              /\ ~(InsertedRow(r) /\ r.meeting \in DOMAIN meetings')]_vars

\* C40: a Recording whose status is completed has a transcript, produced by
\* an AI pipeline run that completed: no operation, the orphan import
\* included, creates or leaves a completed Recording without one.
C40_CompletedHasTranscript ==
    \A i \in DOMAIN meetings :
        meetings[i].status = "completed" => meetings[i].transcription_text
====
